---------------------------- MODULE Spec2Model ----------------------------
(***************************************************************************)
(* A model of rna-seq-annotator.py: the OBO term-block parser              *)
(* (_parse_obo_file), the cache-aside ontology loader (__init__ and        *)
(* _load_ontologies) and the batch annotation engine (annotate_sequence,   *)
(* _annotate_batch, _find_matching_terms).                                  *)
(*                                                                         *)
(* Text is modelled as a sequence of tokens: each of "[Term]", ":", " "    *)
(* and "!" is one token, and every other token is a word holding none of   *)
(* them.  str.strip, str.startswith, `in` and str.split are computed on    *)
(* the token sequences.  A Python dict is modelled as the sequence of its  *)
(* entries in insertion order; None / a missing key is the empty sequence  *)
(* and a present value v is <<v>>.                                         *)
(*                                                                         *)
(* The module holds three specifications over one set of variables:        *)
(*   SpecParse     a file is chosen and _parse_obo_file is applied to it;  *)
(*   SpecLoad      an annotator is constructed and _load_ontologies is     *)
(*                 called again on the constructed object;                 *)
(*   SpecAnnotate  annotate_sequence runs on a thread pool.                *)
(***************************************************************************)
EXTENDS Integers, Sequences, FiniteSets, TLC

(***************************************************************************)
(* Bounds of the model.                                                    *)
(***************************************************************************)
MaxLines == 4
MaxLoads == 2
MaxRecords == 3
MaxWorkers == 2

(***************************************************************************)
(* Generic helpers on sequences (Python str / list / dict operations).     *)
(***************************************************************************)
Range(s) == {s[i] : i \in 1..Len(s)}

\* str.find(tok): the first index of tok in s, 0 when absent
IndexOf(s, tok) ==
    IF \E i \in 1..Len(s) : s[i] = tok
    THEN CHOOSE i \in 1..Len(s) : s[i] = tok /\ \A j \in 1..(i-1) : s[j] # tok
    ELSE 0

RECURSIVE LStrip(_)
LStrip(s) == IF s # <<>> /\ Head(s) = " " THEN LStrip(Tail(s)) ELSE s

RECURSIVE RStrip(_)
RStrip(s) ==
    IF s # <<>> /\ s[Len(s)] = " " THEN RStrip(SubSeq(s, 1, Len(s)-1)) ELSE s

\* str.strip()
Strip(s) == RStrip(LStrip(s))

\* s.split(tok, 1): one part when tok is absent, else the text before the
\* first tok and the text after it
Split1(s, tok) ==
    LET i == IndexOf(s, tok)
    IN  IF i = 0 THEN <<s>>
        ELSE <<SubSeq(s, 1, i-1), SubSeq(s, i+1, Len(s))>>

\* s.split(tok)[0]
BeforeFirst(s, tok) == Split1(s, tok)[1]

\* key in d, d[key] and d[key] = value on an insertion-ordered dict
DictHas(d, key) == \E i \in 1..Len(d) : d[i].k = key

DictGet(d, key) == d[CHOOSE i \in 1..Len(d) : d[i].k = key].v

DictSet(d, key, value) ==
    IF DictHas(d, key)
    THEN [i \in 1..Len(d) |->
            IF d[i].k = key THEN [k |-> key, v |-> value] ELSE d[i]]
    ELSE Append(d, [k |-> key, v |-> value])

DictKeys(d) == [i \in 1..Len(d) |-> d[i].k]

(***************************************************************************)
(* Ontology source text.  A line carries its text (raw), which is all the  *)
(* parser reads, and the key, value and relation type its author supplied, *)
(* which only the properties below read.                                   *)
(***************************************************************************)
Line(raw, key, val, rel) == [raw |-> raw, key |-> key, val |-> val, rel |-> rel]

\* the lines the source files are written from, by name
Lines ==
    {"[Term]", "idA", "idB", "idC", "name", "def", "synonym", "xref", "is_a",
     "relationship", "relNoSpace", "noteX", "noteY", "blank"}

LineOf(l) ==
    CASE l = "[Term]" -> Line(<<"[Term]">>, "[Term]", <<>>, <<>>)
      [] l = "idA" -> Line(<<"id", ":", " ", "A">>, "id", <<"A">>, <<>>)
      [] l = "idB" ->
            Line(<<" ", "id", ":", " ", "B", " ">>, "id", <<"B">>, <<>>)
      [] l = "idC" -> Line(<<"id", ":", "C">>, "id", <<"C">>, <<>>)
      [] l = "idD" -> Line(<<"id", ":", "D">>, "id", <<"D">>, <<>>)
      [] l = "idE" -> Line(<<"id", ":", "E">>, "id", <<"E">>, <<>>)
      [] l = "idF" -> Line(<<"id", ":", "F">>, "id", <<"F">>, <<>>)
      [] l = "name" ->
            Line(<<"name", ":", " ", "x">>, "name", <<"x">>, <<>>)
      [] l = "def" ->
            Line(<<"def", ":", " ", "x", " ", "y">>, "def",
                 <<"x", " ", "y">>, <<>>)
      [] l = "synonym" ->
            Line(<<"synonym", ":", " ", "x">>, "synonym", <<"x">>, <<>>)
      [] l = "xref" ->
            Line(<<"xref", ":", "x", ":", "y">>, "xref", <<"x", ":", "y">>,
                 <<>>)
      [] l = "is_a" ->
            Line(<<"is_a", ":", " ", "B", " ", "!", " ", "x">>, "is_a",
                 <<"B">>, <<"is_a">>)
      [] l = "relationship" ->
            Line(<<"relationship", ":", " ", "part_of", " ", "B", " ", "!",
                   " ", "x">>, "relationship", <<"B">>, <<"part_of">>)
      [] l = "relNoSpace" ->
            Line(<<"relationship", ":", " ", "B">>, "relationship", <<"B">>,
                 <<>>)
      [] l = "noteX" -> Line(<<"note", ":", " ", "x">>, "note", <<"x">>, <<>>)
      [] l = "noteY" -> Line(<<"note", ":", " ", "y">>, "note", <<"y">>, <<>>)
      [] l = "blank" -> Line(<<" ">>, "", <<>>, <<>>)

(***************************************************************************)
(* _parse_obo_file                                                          *)
(***************************************************************************)
\* the dict a [Term] marker opens (lines 127-132); 'id', 'name' and
\* 'definition' are keys the dict does not hold yet
NewTerm ==
    [id |-> <<>>, name |-> <<>>, definition |-> <<>>,
     relationships |-> <<>>, synonyms |-> <<>>, xrefs |-> <<>>,
     properties |-> <<>>]

\* a Python tuple (a, b)
Tuple2(a, b) == [tag |-> "tuple", a |-> a, b |-> b]

\* the parser's locals: terms, current_term (<<>> is None) and the
\* exception that ended the parse
ParseStart == [terms |-> <<>>, current |-> <<>>, exc |-> "none"]

\* terms[current_term['id']] = current_term, when current_term is not None:
\* a dict with four keys is always truthy, and a missing 'id' is a KeyError
StoreCurrent(st) ==
    IF st.current = <<>> THEN st
    ELSE IF st.current[1].id = <<>> THEN [st EXCEPT !.exc = "KeyError"]
    ELSE [st EXCEPT !.terms = DictSet(@, st.current[1].id[1], st.current[1])]

\* the key/value branch of the loop body (lines 136-159)
KeyValue(term, key, value) ==
    IF key = <<"id">>
    THEN [exc |-> "none", term |-> [term EXCEPT !.id = <<value>>]]
    ELSE IF key = <<"name">>
    THEN [exc |-> "none", term |-> [term EXCEPT !.name = <<value>>]]
    ELSE IF key = <<"def">>
    THEN [exc |-> "none", term |-> [term EXCEPT !.definition = <<value>>]]
    ELSE IF key = <<"synonym">>
    THEN [exc |-> "none", term |-> [term EXCEPT !.synonyms = Append(@, value)]]
    ELSE IF key = <<"xref">>
    THEN [exc |-> "none", term |-> [term EXCEPT !.xrefs = Append(@, value)]]
    ELSE IF key = <<"is_a">>
    THEN [exc |-> "none",
          term |-> [term EXCEPT !.relationships =
                      Append(@, Tuple2(<<"is_a">>,
                                       Strip(BeforeFirst(value, "!"))))]]
    ELSE IF key = <<"relationship">>
    THEN LET parts == Split1(value, " ")
         IN  IF Len(parts) < 2
             THEN [exc |-> "ValueError", term |-> term]
             ELSE [exc |-> "none",
                   term |-> [term EXCEPT !.relationships =
                               Append(@, Tuple2(parts[1],
                                          Strip(BeforeFirst(parts[2], "!"))))]]
    ELSE [exc |-> "none",
          term |-> [term EXCEPT !.properties = DictSet(@, key, value)]]

\* one iteration of `for line in f` (lines 121-159)
ParseLine(st, raw) ==
    LET line == Strip(raw)
    IN  IF st.exc # "none" THEN st
        ELSE IF line # <<>> /\ Head(line) = "[Term]"
        THEN LET stored == StoreCurrent(st)
             IN  IF stored.exc # "none" THEN stored
                 ELSE [stored EXCEPT !.current = <<NewTerm>>]
        ELSE IF st.current = <<>> \/ line = <<>> THEN st
        ELSE IF IndexOf(line, ":") # 0
        THEN LET kv == Split1(line, ":")
                 r  == KeyValue(st.current[1], kv[1], Strip(kv[2]))
             IN  IF r.exc # "none" THEN [st EXCEPT !.exc = r.exc]
                 ELSE [st EXCEPT !.current = <<r.term>>]
        ELSE st

RECURSIVE ParseLines(_, _)
ParseLines(st, lines) ==
    IF lines = <<>> THEN st
    ELSE ParseLines(ParseLine(st, Head(lines)), Tail(lines))

\* a file that open() cannot read
Unreadable == [readable |-> FALSE, lines |-> <<>>]

TextFile(lines) == [readable |-> TRUE, lines |-> lines]

\* _parse_obo_file without lines 161-162: the block open at the end of
\* input is not stored
ParseOboFileDropsLast(file) ==
    IF ~file.readable THEN [exc |-> "OSError", terms |-> <<>>]
    ELSE LET st == ParseLines(ParseStart, [i \in 1..Len(file.lines) |->
                                             LineOf(file.lines[i]).raw])
         IN  [exc |-> st.exc,
              terms |-> IF st.exc = "none" THEN st.terms ELSE <<>>]

\* _parse_obo_file(file_path): the exception it raises ("none" when it
\* returns) and the dict it returns
ParseOboFile(file) ==
    IF ~file.readable THEN [exc |-> "OSError", terms |-> <<>>]
    ELSE LET st  == ParseLines(ParseStart, [i \in 1..Len(file.lines) |->
                                              LineOf(file.lines[i]).raw])
             fin == IF st.exc # "none" THEN st ELSE StoreCurrent(st)
         IN  [exc |-> fin.exc,
              terms |-> IF fin.exc = "none" THEN fin.terms ELSE <<>>]

(***************************************************************************)
(* The annotator object and its collaborators.                             *)
(***************************************************************************)
\* the ontology names main() loads (lines 373-376)
Names == {"GO", "SO"}

\* an attribute of self that no statement has assigned yet: reading it
\* raises AttributeError
Unset == "unset"

\* redis.from_url(redis_url) if redis_url else None (line 34)
NoClient == "None"
Client == "client"

CacheExpiryDefault == 3600

(***************************************************************************)
(* Python floats are IEEE 754 binary64.  A finite float that is not        *)
(* negative is the record [e, hi, lo]: 0.0 has hi = 0, and any other has   *)
(* the 53-bit significand hi * 2^27 + lo with 2^25 <= hi < 2^26 and the    *)
(* value significand * 2^(e - 52).  The exact result of an operation is    *)
(* held with 27 more bits (ext) and a flag for non-zero bits below them    *)
(* (sticky), and is then rounded to nearest, ties to even.  The scores and *)
(* thresholds here lie in [0, 1], so overflow and subnormals do not arise. *)
(***************************************************************************)
Limb == 2^27
HalfLimb == 2^26
QuarterLimb == 2^25

\* float(text) for the decimal literals of the run
Float(text) ==
    CASE text = "0.0" -> [e |-> 0, hi |-> 0, lo |-> 0]
      [] text = "0.7" -> [e |-> -1, hi |-> 46976204, lo |-> 107374182]
      [] text = "0.8" -> [e |-> -1, hi |-> 53687091, lo |-> 26843546]
      [] text = "0.9" -> [e |-> -1, hi |-> 60397977, lo |-> 80530637]

\* the float 0.0
Zero == Float("0.0")

Extended(x) == [hi |-> x.hi, lo |-> x.lo, ext |-> 0, sticky |-> FALSE]

RECURSIVE ShiftRight(_, _)
\* the extended significand x moved d bits down
ShiftRight(x, d) ==
    IF d > 26 THEN ShiftRight(ShiftRight(x, 26), d - 26)
    ELSE LET p == 2^d
             q == 2^(27 - d)
         IN  [hi |-> x.hi \div p,
              lo |-> (x.hi % p) * q + x.lo \div p,
              ext |-> (x.lo % p) * q + x.ext \div p,
              sticky |-> x.sticky \/ x.ext % p # 0]

\* the extended significand x moved s < 27 bits up
ShiftLeft(x, s) ==
    LET p == 2^s
        q == 2^(27 - s)
    IN  [hi |-> x.hi * p + x.lo \div q,
         lo |-> (x.lo % q) * p + x.ext \div q,
         ext |-> (x.ext % q) * p,
         sticky |-> x.sticky]

\* the float nearest to the extended significand x at exponent e
RoundNearestEven(e, x) ==
    LET up == \/ x.ext > HalfLimb
              \/ x.ext = HalfLimb /\ (x.sticky \/ x.lo % 2 = 1)
        lo == IF up THEN x.lo + 1 ELSE x.lo
        hi == IF lo = Limb THEN x.hi + 1 ELSE x.hi
    IN  IF hi = HalfLimb THEN [e |-> e + 1, hi |-> QuarterLimb, lo |-> 0]
        ELSE [e |-> e, hi |-> hi, lo |-> lo % Limb]

\* a + b
FAdd(a, b) ==
    IF a.hi = 0 THEN b
    ELSE IF b.hi = 0 THEN a
    ELSE LET big == IF a.e >= b.e THEN a ELSE b
             small == IF a.e >= b.e THEN b ELSE a
             s == ShiftRight(Extended(small), big.e - small.e)
             lo == big.lo + s.lo
             sum == [hi |-> big.hi + s.hi + lo \div Limb, lo |-> lo % Limb,
                     ext |-> s.ext, sticky |-> s.sticky]
         IN  IF sum.hi >= HalfLimb
             THEN RoundNearestEven(big.e + 1, ShiftRight(sum, 1))
             ELSE RoundNearestEven(big.e, sum)

\* a / k for a count k in 1..15
FDiv(a, k) ==
    IF a.hi = 0 THEN a
    ELSE LET t1 == (a.hi % k) * Limb + a.lo
             t2 == (t1 % k) * Limb
             q == [hi |-> a.hi \div k, lo |-> t1 \div k, ext |-> t2 \div k,
                   sticky |-> t2 % k # 0]
             s == CHOOSE s \in 0..4 : /\ QuarterLimb <= q.hi * 2^s
                                      /\ q.hi * 2^s < HalfLimb
         IN  RoundNearestEven(a.e - s, ShiftLeft(q, s))

\* a < b
FLess(a, b) ==
    IF b.hi = 0 THEN FALSE
    ELSE IF a.hi = 0 THEN TRUE
    ELSE \/ a.e < b.e
         \/ a.e = b.e /\ a.hi < b.hi
         \/ a.e = b.e /\ a.hi = b.hi /\ a.lo < b.lo

\* _load_config() with no environment variable set (lines 41-46)
DefaultConfig ==
    [max_workers |-> 4, batch_size |-> 1000,
     cache_expiry |-> CacheExpiryDefault, min_confidence |-> Float("0.8")]

\* json.dumps writes a tuple and a list as the same JSON array, and
\* json.loads reads an array back as a list
JsonDumps(graph) ==
    [i \in 1..Len(graph) |->
        [k |-> graph[i].k,
         v |-> [graph[i].v EXCEPT !.relationships =
                  [j \in 1..Len(@) |-> [@[j] EXCEPT !.tag = "array"]]]]]

JsonLoads(text) ==
    [i \in 1..Len(text) |->
        [k |-> text[i].k,
         v |-> [text[i].v EXCEPT !.relationships =
                  [j \in 1..Len(@) |-> [@[j] EXCEPT !.tag = "list"]]]]]

\* the source files the loader is run on
SourceFiles ==
    {Unreadable,
     TextFile(<<>>),
     TextFile(<<"[Term]", "idA", "is_a", "[Term]", "idB">>),
     TextFile(<<"[Term]", "idA", "name">>),
     TextFile(<<"[Term]", "name", "[Term]", "idA">>)}

\* the orders in which ontology_files can list names
RECURSIVE Orders(_)
Orders(S) ==
    IF S = {} THEN {<<>>}
    ELSE UNION {{<<n>> \o o : o \in Orders(S \ {n})} : n \in S}

FileOrders == UNION {Orders(S) : S \in SUBSET Names}

(***************************************************************************)
(* The annotation engine.  A row of a frame is a record of the row's       *)
(* identity (rid, standing for the caller's columns), its 'sequence' cell  *)
(* (<<>> when the table has no such column) and, per ontology name, the    *)
(* pair of columns {name}_annotation and {name}_confidence (<<>> when the  *)
(* frame has no such columns).  Scores and confidences are floats.         *)
(***************************************************************************)
Row(rid, sequence) ==
    [rid |-> rid, sequence |-> sequence, cols |-> [n \in Names |-> <<>>]]

\* the sequences the input tables hold: a supplied strategy scores "s1"
\* and raises on "bad" (a cell that is no sequence)
Sequences == {"s1", "bad"}

\* _calculate_match_confidence(sequence, term_data): "stub" is lines
\* 310-312, which return 0.0; "table" and "flat" are strategies supplied
\* in its place: "table" scores a term by its id, "flat" scores every
\* term 0.8
Score(strat, sequence, term) ==
    IF strat = "stub" THEN [exc |-> "none", score |-> Float("0.0")]
    ELSE IF sequence = "bad" THEN [exc |-> "TypeError", score |-> Zero]
    ELSE IF strat = "flat" THEN [exc |-> "none", score |-> Float("0.8")]
    ELSE [exc |-> "none",
          score |-> CASE term.id = <<<<"A">>>> -> Float("0.9")
                      [] term.id = <<<<"B">>>> -> Float("0.8")
                      [] term.id = <<<<"C">>>> -> Float("0.7")
                      [] OTHER -> Float("0.0")]

RECURSIVE SumSeq(_)
\* np.add.reduce(xs): the items added one after the other (fewer than 8)
SumSeq(xs) ==
    IF Len(xs) = 0 THEN Zero
    ELSE IF Len(xs) = 1 THEN xs[1]
    ELSE FAdd(SumSeq(SubSeq(xs, 1, Len(xs) - 1)), xs[Len(xs)])

\* np.sum in the place of np.mean
MeanUndivided(xs) == SumSeq(xs)

\* np.mean(confidence_scores) of a non-empty list
Mean(xs) == FDiv(SumSeq(xs), Len(xs))

RECURSIVE MatchLoopStrict(_, _, _, _, _, _)
\* the loop of lines 285-290 with `>` for the `>=` of line 288
MatchLoopStrict(strat, min_confidence, sequence, graph, i, acc) ==
    IF i > Len(graph) THEN acc
    ELSE LET r == Score(strat, sequence, graph[i].v)
         IN  IF r.exc # "none" THEN [acc EXCEPT !.exc = r.exc]
             ELSE IF FLess(min_confidence, r.score)
             THEN MatchLoopStrict(strat, min_confidence, sequence, graph, i + 1,
                                  [acc EXCEPT !.matches = Append(@, graph[i].k),
                                              !.scores = Append(@, r.score)])
             ELSE MatchLoopStrict(strat, min_confidence, sequence, graph, i + 1,
                                  acc)

RECURSIVE MatchLoop(_, _, _, _, _, _)
\* the loop of lines 285-290 over the graph's entries from position i
MatchLoop(strat, min_confidence, sequence, graph, i, acc) ==
    IF i > Len(graph) THEN acc
    ELSE LET r == Score(strat, sequence, graph[i].v)
         IN  IF r.exc # "none" THEN [acc EXCEPT !.exc = r.exc]
             ELSE IF ~FLess(r.score, min_confidence)
             THEN MatchLoop(strat, min_confidence, sequence, graph, i + 1,
                            [acc EXCEPT !.matches = Append(@, graph[i].k),
                                        !.scores = Append(@, r.score)])
             ELSE MatchLoop(strat, min_confidence, sequence, graph, i + 1, acc)

\* _find_matching_terms(row, ontology_name) on a loaded graph: the
\* exception it raises ("none" when it returns) and the pair it returns
FindMatchingTerms(strat, min_confidence, row, graph) ==
    IF row.sequence = <<>>
    THEN [exc |-> "KeyError", annotation |-> <<>>, confidence |-> Zero]
    ELSE LET acc == MatchLoop(strat, min_confidence, row.sequence[1], graph, 1,
                              [exc |-> "none", matches |-> <<>>, scores |-> <<>>])
         IN  IF acc.exc # "none"
             THEN [exc |-> acc.exc, annotation |-> <<>>, confidence |-> Zero]
             ELSE IF acc.matches # <<>>
             THEN [exc |-> "none", annotation |-> acc.matches,
                   confidence |-> Mean(acc.scores)]
             ELSE [exc |-> "none", annotation |-> <<>>, confidence |-> Zero]

\* the body of the loop of line 245 for one ontology name: the frame with
\* the name's two columns added, the exception that ended it, and whether
\* line 247 logged the name as not loaded
AnnotateColumns(strat, min_confidence, graphs, batch, frame, name) ==
    IF graphs[name] = <<>>
    THEN [exc |-> "none", frame |-> frame, missing |-> {name}]
    ELSE LET found == [i \in 1..Len(batch) |->
                         FindMatchingTerms(strat, min_confidence, batch[i],
                                           graphs[name][1])]
         IN  IF \E i \in 1..Len(batch) : found[i].exc # "none"
             THEN [exc |-> found[CHOOSE i \in 1..Len(batch) :
                                   /\ found[i].exc # "none"
                                   /\ \A j \in 1..(i-1) : found[j].exc = "none"].exc,
                   frame |-> frame, missing |-> {}]
             ELSE [exc |-> "none",
                   frame |-> [i \in 1..Len(frame) |->
                                [frame[i] EXCEPT !.cols[name] =
                                   <<[annotation |-> found[i].annotation,
                                      confidence |-> found[i].confidence]>>]],
                   missing |-> {}]

RECURSIVE AnnotateLoop(_, _, _, _, _, _)
\* the loop of line 245 over the names left
AnnotateLoop(strat, min_confidence, graphs, batch, names, acc) ==
    IF names = <<>> \/ acc.exc # "none" THEN acc
    ELSE LET r == AnnotateColumns(strat, min_confidence, graphs, batch,
                                  acc.frame, Head(names))
         IN  AnnotateLoop(strat, min_confidence, graphs, batch, Tail(names),
                          [exc |-> r.exc, frame |-> r.frame,
                           missing |-> acc.missing \cup r.missing])

\* _annotate_batch with `break` for the `continue` of line 248: the names
\* listed after a name that is not loaded are not annotated
AnnotateBatchStopsAtMissing(strat, min_confidence, graphs, batch, names) ==
    IF \E i \in 1..Len(names) : graphs[names[i]] = <<>>
    THEN LET first == CHOOSE i \in 1..Len(names) :
                         /\ graphs[names[i]] = <<>>
                         /\ \A j \in 1..(i-1) : graphs[names[j]] # <<>>
         IN  AnnotateLoop(strat, min_confidence, graphs, batch,
                          SubSeq(names, 1, first - 1),
                          [exc |-> "none", frame |-> batch,
                           missing |-> {names[first]}])
    ELSE AnnotateLoop(strat, min_confidence, graphs, batch, names,
                      [exc |-> "none", frame |-> batch, missing |-> {}])

\* _annotate_batch(batch, required_ontologies)
AnnotateBatch(strat, min_confidence, graphs, batch, names) ==
    AnnotateLoop(strat, min_confidence, graphs, batch, names,
                 [exc |-> "none", frame |-> batch, missing |-> {}])

\* the batches of lines 185-188 with range(0, len - batch_size + 1,
\* batch_size): the records after the last full batch are in no batch
PartitionDropsRemainder(rows, batch_size) ==
    [b \in 1..(Len(rows) \div batch_size) |->
        SubSeq(rows, (b - 1) * batch_size + 1, b * batch_size)]

\* sequence_data[i:i + batch_size] for i in range(0, len, batch_size)
Partition(rows, batch_size) ==
    [b \in 1..((Len(rows) + batch_size - 1) \div batch_size) |->
        SubSeq(rows, (b - 1) * batch_size + 1,
               IF b * batch_size < Len(rows) THEN b * batch_size ELSE Len(rows))]

RECURSIVE Concat(_)
\* pd.concat(frames, ignore_index=True) of a non-empty list
Concat(frames) ==
    IF frames = <<>> THEN <<>> ELSE Head(frames) \o Concat(Tail(frames))

\* the source files of the graphs the engine is run on
AnnotationFile(n) ==
    IF n = "GO"
    THEN TextFile(<<"[Term]", "idA", "[Term]", "idB", "[Term]", "idC",
                    "[Term]", "idD", "[Term]", "idE", "[Term]", "idF">>)
    ELSE TextFile(<<"[Term]", "idB", "is_a", "[Term]", "idC">>)

(***************************************************************************)
(* The validator.  validation_rules is a dict: each of its two keys is     *)
(* <<>> when the dict lacks it and <<value>> when it holds it.  A frame    *)
(* that has an ontology's annotation column and lacks its confidence       *)
(* column has, for that name, cells with the annotation field alone.       *)
(***************************************************************************)
Rules(required, threshold) ==
    [required_ontologies |-> required, min_confidence |-> threshold]

\* validation_rules.get('required_ontologies', [])
RequiredOf(rules) ==
    IF rules.required_ontologies = <<>> THEN <<>>
    ELSE rules.required_ontologies[1]

\* validation_rules.get('min_confidence', 0.8)
ThresholdOf(rules) ==
    IF rules.min_confidence = <<>> THEN Float("0.8")
    ELSE rules.min_confidence[1]

\* not row.get(f"{ontology}_annotation")
NoAnnotation(row, name) ==
    \/ row.cols[name] = <<>>
    \/ row.cols[name][1].annotation = <<>>

\* row.get(f"{ontology}_confidence", 0)
ConfidenceOf(row, name) ==
    IF "confidence" \in DOMAIN row.cols[name][1]
    THEN row.cols[name][1].confidence
    ELSE Zero

RECURSIVE ValidateLoop(_, _, _)
\* the loop of lines 351-357 over the names left
ValidateLoop(row, names, threshold) ==
    IF names = <<>> THEN "PASS"
    ELSE IF NoAnnotation(row, Head(names)) THEN "MISSING_REQUIRED_ANNOTATION"
    ELSE IF FLess(ConfidenceOf(row, Head(names)), threshold)
    THEN "LOW_CONFIDENCE"
    ELSE ValidateLoop(row, Tail(names), threshold)

\* _validate_row with the confidence of every required ontology checked
\* before any annotation is
ValidateRowLowFirst(row, rules) ==
    LET names == RequiredOf(rules)
    IN  IF \E j \in 1..Len(names) :
              /\ ~NoAnnotation(row, names[j])
              /\ FLess(ConfidenceOf(row, names[j]), ThresholdOf(rules))
        THEN "LOW_CONFIDENCE"
        ELSE IF \E j \in 1..Len(names) : NoAnnotation(row, names[j])
        THEN "MISSING_REQUIRED_ANNOTATION"
        ELSE "PASS"

\* _validate_row(row, validation_rules)
ValidateRow(row, rules) ==
    ValidateLoop(row, RequiredOf(rules), ThresholdOf(rules))

\* the validation_status column of line 327
ValidationStatus(data, rules) ==
    [i \in 1..Len(data) |-> ValidateRow(data[i], rules)]

\* the validation_rules of main (lines 397-400)
MainRules == Rules(<<<<"GO", "SO">>>>, <<Float("0.8")>>)

\* the ontology_files of main (lines 373-376), in the dict's order
MainOrder == <<"GO", "SO">>

\* the tables of at most n records: every cell of the 'sequence' column is
\* one of Sequences, or the table has no such column
InputTables(max) ==
    UNION {{[i \in 1..n |-> Row(i, <<f[i]>>)] : f \in [1..n -> Sequences]}
           \cup {[i \in 1..n |-> Row(i, <<>>)]} : n \in 0..max}

VARIABLES
    pfile,         \* SpecParse: the file handed to _parse_obo_file
    presult,       \* SpecParse: <<>> before the call, <<its outcome>> after
    phase,         \* "new", "constructing" (inside __init__), "ready",
                   \* "loading" (inside a later _load_ontologies call)
    redis_url,     \* __init__'s argument: TRUE when a cache URL is given
    redis_client,  \* self.redis_client: Unset until line 34 assigns it
    config,        \* self.config: <<>> until line 37 assigns <<the dict>>
    fs,            \* the ontology source file of each name
    cache,         \* the cache store: name -> <<>> or <<serialized graph>>
    ontologies,    \* self.ontologies: name -> <<>> or <<graph>>
    queue,         \* the items `for ... in ontology_files.items()` has left
    outcome,       \* what the running or last load logged for each name
    parser_calls,  \* the names _parse_obo_file was called for in this load,
                   \* in call order
    warmed_by,     \* the graph self.ontologies held for the name when a load
                   \* last wrote the name's cache entry
    loads,         \* the number of _load_ontologies calls after __init__
    strategy,      \* the scoring strategy behind _calculate_match_confidence
    records,       \* annotate_sequence's sequence_data, a row per record
    required,      \* annotate_sequence's required_ontologies
    run,           \* where annotate_sequence is: "idle", "pool" (inside the
                   \* with block), "returned" or "raised"
    batches,       \* the batches of lines 185-188, in submission order
    status,        \* each future: "queued", "running", "done" or "failed"
    results,       \* the frame each finished _annotate_batch returned
    gathered,      \* the futures the loop of line 201 has been through
    annotated_batches,  \* the list of line 190
    output,        \* the frame annotate_sequence returned
    errors,        \* the logger.error records of the annotation run
    output_file,   \* annotate_sequence's output_file: TRUE when a path is given
    written,       \* TRUE once line 223 wrote the output table
    vstate,        \* validate_annotations: "idle", "called" or "done"
    vdata,         \* validate_annotations' annotated_data
    vrules,        \* validate_annotations' validation_rules
    validated,     \* the validation_status column of the frame it returned
    pc             \* "lib" when the class is used as a library; inside
                   \* main(): "main" (lines 363-385), "read" (from line 387
                   \* on), "exit0" (main returned) or "exit1" (an exception
                   \* left main)

parseVars == <<pfile, presult>>

loadVars ==
    <<phase, redis_url, redis_client, config, fs, cache, ontologies, queue,
      outcome, parser_calls, warmed_by, loads>>

annVars ==
    <<strategy, records, required, run, batches, status, results, gathered,
      annotated_batches, output, errors>>

valVars == <<vstate, vdata, vrules, validated>>

mainVars == <<pc, output_file, written>>

vars == <<parseVars, loadVars, annVars, valVars, mainVars>>

\* the engine's variables where annotate_sequence has not been called
AnnotateIdle ==
    /\ strategy = "stub" /\ records = <<>> /\ required = <<>>
    /\ run = "idle" /\ batches = <<>> /\ status = <<>> /\ results = <<>>
    /\ gathered = 0 /\ annotated_batches = <<>> /\ output = <<>>
    /\ errors = {}

\* the validator's variables where validate_annotations has not been called
ValidateIdle ==
    /\ vstate = "idle" /\ vdata = <<>> /\ validated = <<>>
    /\ vrules = Rules(<<>>, <<>>)

\* main() is not running, and no output path is given to annotate_sequence
MainIdle == pc = "lib" /\ output_file = FALSE /\ written = FALSE

(***************************************************************************)
(* SpecParse: _parse_obo_file applied to every bounded file.               *)
(***************************************************************************)
ParseIdle == pfile = Unreadable /\ presult = <<>>

\* the loader's variables where no annotator has been constructed
LoadIdle ==
    /\ phase = "new" /\ redis_url = FALSE
    /\ redis_client = Unset /\ config = <<>>
    /\ fs = [n \in Names |-> Unreadable]
    /\ cache = [n \in Names |-> <<>>]
    /\ ontologies = [n \in Names |-> <<>>]
    /\ queue = <<>>
    /\ outcome = [n \in Names |-> "none"]
    /\ parser_calls = <<>>
    /\ warmed_by = [n \in Names |-> <<>>]
    /\ loads = 0

\* every readable file of at most MaxLines lines, and an unreadable one
InitParse ==
    /\ \/ \E n \in 0..MaxLines : \E f \in [1..n -> Lines] : pfile = TextFile(f)
       \/ pfile = Unreadable
    /\ presult = <<>>
    /\ LoadIdle
    /\ AnnotateIdle
    /\ ValidateIdle
    /\ MainIdle

ParseFile ==
    /\ presult = <<>>
    /\ presult' = <<ParseOboFile(pfile)>>
    /\ UNCHANGED <<pfile, loadVars, annVars, valVars, mainVars>>

NextParse == ParseFile

SpecParse == InitParse /\ [][NextParse]_vars

(***************************************************************************)
(* What a file's author supplied, read off the lines' key, val and rel     *)
(* fields and not off the parser: the term blocks of a file and the        *)
(* values each block gives a key.                                          *)
(***************************************************************************)
IsMarker(l) == LineOf(l).key = "[Term]"

\* the positions of the [Term] markers of a file
Markers(lines) == {i \in 1..Len(lines) : IsMarker(lines[i])}

\* the lines of the block opened at marker i: up to the next marker or the
\* end of the file
BlockBody(lines, i) ==
    LET later == {j \in Markers(lines) : j > i}
        stop  == IF later = {} THEN Len(lines) + 1
                 ELSE CHOOSE j \in later : \A k \in later : j <= k
    IN  SubSeq(lines, i + 1, stop - 1)

RECURSIVE Supplied(_, _)
\* the values a block body gives `key`, in file order
Supplied(body, key) ==
    IF body = <<>> THEN <<>>
    ELSE IF LineOf(Head(body)).key = key
    THEN <<LineOf(Head(body)).val>> \o Supplied(Tail(body), key)
    ELSE Supplied(Tail(body), key)

RECURSIVE SuppliedRelations(_)
\* the (relation type, target) pairs a block body gives, in file order
SuppliedRelations(body) ==
    IF body = <<>> THEN <<>>
    ELSE IF LineOf(Head(body)).key \in {"is_a", "relationship"}
    THEN <<Tuple2(LineOf(Head(body)).rel, LineOf(Head(body)).val)>>
            \o SuppliedRelations(Tail(body))
    ELSE SuppliedRelations(Tail(body))

RecognizedKeys ==
    {"id", "name", "def", "synonym", "xref", "is_a", "relationship"}

\* the keys of a block body that the format does not recognize
OtherKeys(body) ==
    {LineOf(body[i]).key : i \in 1..Len(body)} \ (RecognizedKeys \cup {""})

\* a key's last value, <<>> when the block does not give the key
LastSupplied(body, key) ==
    LET vs == Supplied(body, key)
    IN  IF vs = <<>> THEN <<>> ELSE <<vs[Len(vs)]>>

HasId(body) == Supplied(body, "id") # <<>>

\* a relationship line whose value holds no space
HasUnsplittable(body) == \E i \in 1..Len(body) : body[i] = "relNoSpace"

\* a block that gives exactly one id and whose lines all split
WellFormedBlock(body) == Len(Supplied(body, "id")) = 1 /\ ~HasUnsplittable(body)

\* the ids of the blocks that give one are pairwise distinct
DistinctIds(lines) ==
    \A i, j \in Markers(lines) :
        (i # j /\ HasId(BlockBody(lines, i)) /\ HasId(BlockBody(lines, j)))
            => LastSupplied(BlockBody(lines, i), "id")
                 # LastSupplied(BlockBody(lines, j), "id")

WellFormedFile(file) ==
    /\ file.readable
    /\ DistinctIds(file.lines)
    /\ \A i \in Markers(file.lines) : WellFormedBlock(BlockBody(file.lines, i))

\* the record `terms` holds for a block body under the block's id: every
\* field is what the block supplied
StoredAsSupplied(terms, body) ==
    LET id == LastSupplied(body, "id")
    IN  /\ id # <<>>
        /\ DictHas(terms, id[1])
        /\ LET t == DictGet(terms, id[1])
           IN  /\ t.id = id
               /\ t.name = LastSupplied(body, "name")
               /\ t.definition = LastSupplied(body, "def")
               /\ t.synonyms = Supplied(body, "synonym")
               /\ t.xrefs = Supplied(body, "xref")
               /\ t.relationships = SuppliedRelations(body)
               /\ {t.properties[i].k : i \in 1..Len(t.properties)}
                     = {<<k>> : k \in OtherKeys(body)}
               /\ \A k \in OtherKeys(body) :
                     <<DictGet(t.properties, <<k>>)>> = LastSupplied(body, k)

Parsed == presult # <<>>

\* C5: parsing a file of well-formed term blocks returns a mapping that
\* holds every block, the last one included, under its id and nothing else,
\* with id, name and definition as supplied, synonyms, xrefs and
\* relationships as supplied in file order with duplicates, and each
\* unrecognized key in properties with its last value.
C5_WellFormedBlocksStored ==
    (Parsed /\ WellFormedFile(pfile)) =>
        /\ presult[1].exc = "none"
        /\ Len(presult[1].terms) = Cardinality(Markers(pfile.lines))
        /\ \A i \in Markers(pfile.lines) :
              StoredAsSupplied(presult[1].terms, BlockBody(pfile.lines, i))

\* a parsed well-formed file whose last block, closed by the end of input,
\* gives the same synonym twice
C5_Witness ==
    /\ Parsed /\ WellFormedFile(pfile)
    /\ \E i \in Markers(pfile.lines) :
          /\ \A j \in Markers(pfile.lines) : j <= i
          /\ Supplied(BlockBody(pfile.lines, i), "synonym") = <<<<"x">>, <<"x">>>>

\* C4: a block finalized without an id is skipped and the file is not
\* aborted: parsing a file whose blocks are well formed except that some
\* give no id returns a mapping that holds exactly the blocks with an id,
\* each as supplied.
C4_NoIdBlockSkipped ==
    (/\ Parsed /\ pfile.readable /\ DistinctIds(pfile.lines)
     /\ \A i \in Markers(pfile.lines) :
           /\ ~HasUnsplittable(BlockBody(pfile.lines, i))
           /\ Len(Supplied(BlockBody(pfile.lines, i), "id")) <= 1) =>
        /\ presult[1].exc = "none"
        /\ Len(presult[1].terms)
              = Cardinality({i \in Markers(pfile.lines) :
                               HasId(BlockBody(pfile.lines, i))})
        /\ \A i \in Markers(pfile.lines) :
              HasId(BlockBody(pfile.lines, i)) =>
                 StoredAsSupplied(presult[1].terms, BlockBody(pfile.lines, i))

\* C18: a malformed line inside one term block is contained to that
\* block: in a file whose other blocks are well formed, every well-formed
\* block is in the mapping, as supplied, although some block holds a
\* relationship line whose value has no space.
C18_MalformedLineContained ==
    ( /\ Parsed /\ pfile.readable /\ DistinctIds(pfile.lines)
      /\ \E i \in Markers(pfile.lines) : HasUnsplittable(BlockBody(pfile.lines, i))
      /\ \A i \in Markers(pfile.lines) :
            \/ HasUnsplittable(BlockBody(pfile.lines, i))
            \/ WellFormedBlock(BlockBody(pfile.lines, i)) ) =>
        \A i \in Markers(pfile.lines) :
            WellFormedBlock(BlockBody(pfile.lines, i))
               => StoredAsSupplied(presult[1].terms, BlockBody(pfile.lines, i))

(***************************************************************************)
(* SpecLoad: __init__ and _load_ontologies.                                *)
(*                                                                         *)
(* __init__ runs line 30, self._load_ontologies(ontology_files), before    *)
(* lines 34 and 37 assign self.redis_client and self.config.  After        *)
(* __init__ the loader is called again on the finished object.  The cache  *)
(* collaborator may fail any get or setex, and an entry may expire.        *)
(***************************************************************************)
\* the state before RNASeqAnnotator(ontology_files, ...) is called
NewAnnotator ==
    /\ phase = "new" /\ redis_url = FALSE
    /\ redis_client = Unset /\ config = <<>>
    /\ fs \in [Names -> SourceFiles]
    /\ cache = [n \in Names |-> <<>>]
    /\ ontologies = [n \in Names |-> <<>>]
    /\ queue = <<>>
    /\ outcome = [n \in Names |-> "none"]
    /\ parser_calls = <<>>
    /\ warmed_by = [n \in Names |-> <<>>]
    /\ loads = 0

InitLoad ==
    /\ ParseIdle
    /\ NewAnnotator
    /\ AnnotateIdle
    /\ ValidateIdle
    /\ MainIdle

InLoop == phase \in {"constructing", "loading"} /\ queue # <<>>

\* the log record of the iteration for the queue's head, and the loop moves
\* on to the next item (`continue`, the end of the body, or the except
\* clause of lines 104-105)
Logged(event) ==
    /\ outcome' = [outcome EXCEPT ![Head(queue)] = event]
    /\ queue' = Tail(queue)

\* the items of a call: every listed name awaits its iteration
Pending(order) ==
    [n \in Names |-> IF n \in Range(order) THEN "pending" ELSE "none"]

\* RNASeqAnnotator(ontology_files, redis_url=...): lines 28-30 up to the
\* call of _load_ontologies
Construct(order, url) ==
    /\ phase = "new"
    /\ phase' = "constructing"
    /\ redis_url' = url
    /\ ontologies' = [n \in Names |-> <<>>]
    /\ queue' = order
    /\ outcome' = Pending(order)
    /\ parser_calls' = <<>>
    /\ UNCHANGED <<redis_client, config, fs, cache, warmed_by, loads, parseVars, annVars, valVars, mainVars>>

\* line 85 (or line 99) reads an attribute that is not assigned yet: the
\* AttributeError is caught at line 104
LoadAttributeError ==
    /\ InLoop
    /\ redis_client = Unset
    /\ Logged("AttributeError")
    /\ UNCHANGED <<phase, redis_url, redis_client, config, fs, cache,
                   ontologies, parser_calls, warmed_by, loads, parseVars, annVars, valVars, mainVars>>

\* line 86: redis_client.get raises, caught at line 104
LoadGetFails ==
    /\ InLoop
    /\ redis_client = Client
    /\ Logged("get_failed")
    /\ UNCHANGED <<phase, redis_url, redis_client, config, fs, cache,
                   ontologies, parser_calls, warmed_by, loads, parseVars, annVars, valVars, mainVars>>

\* lines 86-90: the cache holds the entry
LoadFromCache ==
    /\ InLoop
    /\ redis_client = Client
    /\ cache[Head(queue)] # <<>>
    /\ ontologies' =
          [ontologies EXCEPT ![Head(queue)] = <<JsonLoads(cache[Head(queue)][1])>>]
    /\ Logged("hit")
    /\ UNCHANGED <<phase, redis_url, redis_client, config, fs, cache,
                   parser_calls, warmed_by, loads, parseVars, annVars, valVars, mainVars>>

\* the cache is absent, or get returned None
CacheMiss ==
    /\ InLoop
    /\ \/ redis_client = NoClient
       \/ redis_client = Client /\ cache[Head(queue)] = <<>>

\* line 93: _parse_obo_file raises, caught at line 104
LoadParseFails ==
    /\ CacheMiss
    /\ ParseOboFile(fs[Head(queue)]).exc # "none"
    /\ parser_calls' = Append(parser_calls, Head(queue))
    /\ Logged("parse_failed")
    /\ UNCHANGED <<phase, redis_url, redis_client, config, fs, cache,
                   ontologies, warmed_by, loads, parseVars, annVars, valVars, mainVars>>

\* lines 93-103 with no cache client
LoadParsed ==
    /\ CacheMiss
    /\ redis_client = NoClient
    /\ ParseOboFile(fs[Head(queue)]).exc = "none"
    /\ parser_calls' = Append(parser_calls, Head(queue))
    /\ ontologies' =
          [ontologies EXCEPT ![Head(queue)] = <<ParseOboFile(fs[Head(queue)]).terms>>]
    /\ Logged("parsed")
    /\ UNCHANGED <<phase, redis_url, redis_client, config, fs, cache,
                   warmed_by, loads, parseVars, annVars, valVars, mainVars>>

\* lines 93-103 with a cache client: the parsed graph is assigned and then
\* written to the cache
LoadParsedAndCached ==
    /\ CacheMiss
    /\ redis_client = Client /\ config # <<>>
    /\ ParseOboFile(fs[Head(queue)]).exc = "none"
    /\ parser_calls' = Append(parser_calls, Head(queue))
    /\ ontologies' =
          [ontologies EXCEPT ![Head(queue)] = <<ParseOboFile(fs[Head(queue)]).terms>>]
    /\ cache' =
          [cache EXCEPT ![Head(queue)] =
              <<JsonDumps(ParseOboFile(fs[Head(queue)]).terms)>>]
    /\ warmed_by' =
          [warmed_by EXCEPT ![Head(queue)] = <<ParseOboFile(fs[Head(queue)]).terms>>]
    /\ Logged("parsed")
    /\ UNCHANGED <<phase, redis_url, redis_client, config, fs, loads, parseVars, annVars, valVars, mainVars>>

\* lines 93-101 with the try of line 83 around the whole loop: the setex
\* failure ends the loop
LoadSetFailsAborts ==
    /\ CacheMiss
    /\ redis_client = Client /\ config # <<>>
    /\ ParseOboFile(fs[Head(queue)]).exc = "none"
    /\ parser_calls' = Append(parser_calls, Head(queue))
    /\ ontologies' =
          [ontologies EXCEPT ![Head(queue)] = <<ParseOboFile(fs[Head(queue)]).terms>>]
    /\ outcome' = [outcome EXCEPT ![Head(queue)] = "set_failed"]
    /\ queue' = <<>>
    /\ UNCHANGED <<phase, redis_url, redis_client, config, fs, cache,
                   warmed_by, loads, parseVars, annVars, valVars, mainVars>>

\* lines 93-101: the graph is assigned at line 93, then setex raises,
\* caught at line 104
LoadSetFails ==
    /\ CacheMiss
    /\ redis_client = Client /\ config # <<>>
    /\ ParseOboFile(fs[Head(queue)]).exc = "none"
    /\ parser_calls' = Append(parser_calls, Head(queue))
    /\ ontologies' =
          [ontologies EXCEPT ![Head(queue)] = <<ParseOboFile(fs[Head(queue)]).terms>>]
    /\ Logged("set_failed")
    /\ UNCHANGED <<phase, redis_url, redis_client, config, fs, cache,
                   warmed_by, loads, parseVars, annVars, valVars, mainVars>>

\* the loop of line 82 is over inside __init__: lines 33-37
FinishConstruct ==
    /\ phase = "constructing" /\ queue = <<>>
    /\ phase' = "ready"
    /\ redis_client' = IF redis_url THEN Client ELSE NoClient
    /\ config' = <<DefaultConfig>>
    /\ UNCHANGED <<redis_url, fs, cache, ontologies, queue, outcome,
                   parser_calls, warmed_by, loads, parseVars, annVars, valVars, mainVars>>

\* annotator._load_ontologies(ontology_files) on the constructed object
LoadOntologies(order) ==
    /\ phase = "ready" /\ loads < MaxLoads
    /\ phase' = "loading"
    /\ loads' = loads + 1
    /\ queue' = order
    /\ outcome' = Pending(order)
    /\ parser_calls' = <<>>
    /\ UNCHANGED <<redis_url, redis_client, config, fs, cache, ontologies,
                   warmed_by, parseVars, annVars, valVars, mainVars>>

\* the loop of line 82 is over in a later call
FinishLoad ==
    /\ phase = "loading" /\ queue = <<>>
    /\ phase' = "ready"
    /\ UNCHANGED <<redis_url, redis_client, config, fs, cache, ontologies,
                   queue, outcome, parser_calls, warmed_by, loads, parseVars, annVars, valVars, mainVars>>

\* the time-to-live of an entry written by setex runs out
Expire(n) ==
    /\ cache[n] # <<>>
    /\ cache' = [cache EXCEPT ![n] = <<>>]
    /\ UNCHANGED <<phase, redis_url, redis_client, config, fs, ontologies,
                   queue, outcome, parser_calls, warmed_by, loads, parseVars, annVars, valVars, mainVars>>

NextLoad ==
    \/ \E order \in FileOrders, url \in BOOLEAN : Construct(order, url)
    \/ LoadAttributeError
    \/ LoadGetFails
    \/ LoadFromCache
    \/ LoadParseFails
    \/ LoadParsed
    \/ LoadParsedAndCached
    \/ LoadSetFails
    \/ FinishConstruct
    \/ \E order \in FileOrders : LoadOntologies(order)
    \/ FinishLoad
    \/ \E n \in Names : Expire(n)

SpecLoad == InitLoad /\ [][NextLoad]_vars

(***************************************************************************)
(* Properties of the loader.                                               *)
(***************************************************************************)
\* the graph _parse_obo_file returns for the name's source file
Parseable(n) == ParseOboFile(fs[n]).exc = "none"

ParsedGraph(n) == <<ParseOboFile(fs[n]).terms>>

\* __init__ has returned and no later load has run
Constructed == phase = "ready" /\ loads = 0

\* C3: constructed with no redis_url, the annotator holds the parsed graph
\* of every listed ontology whose source file is readable and well formed.
C3_ParseOnlyConstruction ==
    (Constructed /\ redis_client = NoClient) =>
        \A n \in Names :
            (outcome[n] # "none" /\ Parseable(n)) => ontologies[n] = ParsedGraph(n)

\* C6: a load served from the cache entry that an earlier load wrote holds
\* the graph that earlier load held, relationship pairs included, and calls
\* the file parser zero times for the name.
C6_CacheRoundTrip ==
    \A n \in Names :
        outcome[n] = "hit" =>
            /\ ontologies[n] = warmed_by[n]
            /\ n \notin Range(parser_calls)

\* C7: when the cache get for an ontology raises, the source is parsed
\* instead and the ontology is loaded with the parsed graph.
C7_GetFailureForcesParse ==
    \A n \in Names :
        (outcome[n] = "get_failed" /\ Parseable(n)) => ontologies[n] = ParsedGraph(n)

\* C8: when setex raises after a successful parse, the parsed graph stays
\* in self.ontologies and the loop goes on: the call ends only after every
\* listed ontology had its iteration.
C8_SetFailureKeepsGraph ==
    \A n \in Names :
        outcome[n] = "set_failed" =>
            /\ ontologies[n] = ParsedGraph(n)
            /\ phase = "ready" => \A m \in Names : outcome[m] # "pending"

\* a finished load in which setex failed for the first ontology and the
\* second one was parsed and loaded after it
C8_Witness ==
    /\ phase = "ready"
    /\ Len(parser_calls) = 2
    /\ outcome[parser_calls[1]] = "set_failed"
    /\ outcome[parser_calls[2]] = "parsed"
    /\ ontologies[parser_calls[1]] = ParsedGraph(parser_calls[1])
    /\ ontologies[parser_calls[1]][1] # <<>>
    /\ ontologies[parser_calls[2]] = ParsedGraph(parser_calls[2])

\* C9: when a load has finished, a listed ontology whose file is unreadable
\* or unparseable is not in the graph set, and every other listed ontology
\* whose file is readable and well formed is.
C9_FailedLoadIsolated ==
    phase = "ready" =>
        \A n \in Names :
            (outcome[n] # "none" /\ ~Parseable(n)) =>
                /\ ontologies[n] = <<>>
                /\ \A m \in Names \ {n} :
                      (outcome[m] # "none" /\ Parseable(m)) => ontologies[m] # <<>>

(***************************************************************************)
(* SpecAnnotate: annotate_sequence on a constructed annotator whose graphs *)
(* were loaded by _load_ontologies with no cache client.                   *)
(***************************************************************************)
\* the tables of at most MaxRecords rows: with a 'sequence' column holding
\* any of Sequences, or without the column
InitRecords == records \in InputTables(MaxRecords)

InitAnnotate ==
    /\ ParseIdle
    /\ phase = "ready" /\ redis_url = FALSE /\ redis_client = NoClient
    /\ \E b \in 1..MaxRecords, w \in 1..MaxWorkers :
          config = <<[DefaultConfig EXCEPT !.batch_size = b, !.max_workers = w]>>
    /\ fs = [n \in Names |-> AnnotationFile(n)]
    /\ cache = [n \in Names |-> <<>>]
    /\ \E loaded \in SUBSET Names :
          /\ ontologies = [n \in Names |->
                IF n \in loaded THEN <<ParseOboFile(AnnotationFile(n)).terms>>
                ELSE <<>>]
          /\ outcome = [n \in Names |-> IF n \in loaded THEN "parsed" ELSE "none"]
    /\ queue = <<>> /\ parser_calls = <<>>
    /\ warmed_by = [n \in Names |-> <<>>]
    /\ loads = 1
    /\ strategy \in {"stub", "table", "flat"}
    /\ InitRecords
    /\ required \in FileOrders
    /\ run = "idle" /\ batches = <<>> /\ status = <<>> /\ results = <<>>
    /\ gathered = 0 /\ annotated_batches = <<>> /\ output = <<>>
    /\ errors = {}
    /\ ValidateIdle
    /\ MainIdle

\* lines 184-199: the table is split and every batch is submitted
Submit ==
    /\ run = "idle"
    /\ phase = "ready" /\ pc \in {"lib", "read"}
    /\ run' = "pool"
    /\ batches' = Partition(records, config[1].batch_size)
    /\ status' = [b \in 1..Len(batches') |-> "queued"]
    /\ results' = [b \in 1..Len(batches') |-> <<>>]
    /\ UNCHANGED <<strategy, records, required, gathered, annotated_batches,
                   output, errors, parseVars, loadVars, valVars, mainVars>>

Running == {b \in 1..Len(batches) : status[b] = "running"}

\* a free worker thread takes the batch at the head of the pool's queue
WorkerStart(b) ==
    /\ run = "pool"
    /\ status[b] = "queued"
    /\ \A c \in 1..(b-1) : status[c] # "queued"
    /\ Cardinality(Running) < config[1].max_workers
    /\ status' = [status EXCEPT ![b] = "running"]
    /\ UNCHANGED <<strategy, records, required, run, batches, results,
                   gathered, annotated_batches, output, errors, parseVars,
                   loadVars, valVars, mainVars>>

BatchOutcome(b) ==
    AnnotateBatch(strategy, config[1].min_confidence, ontologies, batches[b],
                  required)

Missing(names, b) == {[kind |-> "missing_ontology", name |-> n, batch |-> b] : n \in names}

\* _annotate_batch returns after it popped the graphs it annotated with
\* from self.ontologies
WorkerReturnsEvictsGraphs(b) ==
    /\ run = "pool"
    /\ status[b] = "running"
    /\ BatchOutcome(b).exc = "none"
    /\ status' = [status EXCEPT ![b] = "done"]
    /\ results' = [results EXCEPT ![b] = BatchOutcome(b).frame]
    /\ errors' = errors \cup Missing(BatchOutcome(b).missing, b)
    /\ ontologies' = [n \in Names |->
                        IF n \in Range(required) THEN <<>> ELSE ontologies[n]]
    /\ UNCHANGED <<strategy, records, required, run, batches, gathered,
                   annotated_batches, output, phase, redis_url, redis_client,
                   config, fs, cache, queue, outcome, parser_calls, warmed_by,
                   loads, parseVars, valVars, mainVars>>

\* _annotate_batch returns: the future holds the annotated frame
WorkerReturns(b) ==
    /\ run = "pool"
    /\ status[b] = "running"
    /\ BatchOutcome(b).exc = "none"
    /\ status' = [status EXCEPT ![b] = "done"]
    /\ results' = [results EXCEPT ![b] = BatchOutcome(b).frame]
    /\ errors' = errors \cup Missing(BatchOutcome(b).missing, b)
    /\ UNCHANGED <<strategy, records, required, run, batches, gathered,
                   annotated_batches, output, parseVars, loadVars, valVars, mainVars>>

\* _annotate_batch raises: the future holds the exception
WorkerRaises(b) ==
    /\ run = "pool"
    /\ status[b] = "running"
    /\ BatchOutcome(b).exc # "none"
    /\ status' = [status EXCEPT ![b] = "failed"]
    /\ errors' = errors \cup Missing(BatchOutcome(b).missing, b)
    /\ UNCHANGED <<strategy, records, required, run, batches, results,
                   gathered, annotated_batches, output, parseVars, loadVars, valVars, mainVars>>

\* lines 201-203: the next future, in submission order, has a result
GatherResult ==
    /\ run = "pool"
    /\ gathered < Len(batches)
    /\ status[gathered + 1] = "done"
    /\ annotated_batches' = Append(annotated_batches, results[gathered + 1])
    /\ gathered' = gathered + 1
    /\ UNCHANGED <<strategy, records, required, run, batches, status, results,
                   output, errors, parseVars, loadVars, valVars, mainVars>>

\* lines 201-205: the next future re-raises its exception, which is logged
GatherException ==
    /\ run = "pool"
    /\ gathered < Len(batches)
    /\ status[gathered + 1] = "failed"
    /\ errors' = errors \cup {[kind |-> "batch_failed", name |-> "",
                               batch |-> gathered + 1]}
    /\ gathered' = gathered + 1
    /\ UNCHANGED <<strategy, records, required, run, batches, status, results,
                   annotated_batches, output, parseVars, loadVars, valVars, mainVars>>

\* line 208 with an empty list: pd.concat raises ValueError, which
\* annotate_sequence does not catch
ConcatRaises ==
    /\ run = "pool"
    /\ gathered = Len(batches)
    /\ annotated_batches = <<>>
    /\ run' = "raised"
    /\ UNCHANGED <<strategy, records, required, batches, status, results,
                   gathered, annotated_batches, output, errors, parseVars,
                   loadVars, valVars, mainVars>>

\* lines 208-228: the gathered frames are concatenated and returned; with
\* an output path, line 223 writes the table or raises, which line 225
\* catches (as lines 217-218 do for the store of lines 211-216)
Return ==
    /\ run = "pool"
    /\ gathered = Len(batches)
    /\ annotated_batches # <<>>
    /\ output' = Concat(annotated_batches)
    /\ run' = "returned"
    /\ \E saved \in BOOLEAN : written' = (output_file /\ saved)
    /\ UNCHANGED <<strategy, records, required, batches, status, results,
                   gathered, annotated_batches, errors, pc, output_file,
                   parseVars, loadVars, valVars>>

\* validate_annotations(annotated_data, validation_rules) is called on the
\* frame annotate_sequence returned: by main with its rules (line 401), by
\* a library user with any rules
CallValidate(rules) ==
    /\ run = "returned" /\ vstate = "idle"
    /\ pc \in {"lib", "read"}
    /\ pc = "read" => rules = MainRules
    /\ vstate' = "called"
    /\ vdata' = output
    /\ vrules' = rules
    /\ UNCHANGED <<validated, parseVars, loadVars, annVars, mainVars>>

\* lines 324-337: every row of a copy of the frame gets its status
ValidateAnnotations ==
    /\ vstate = "called"
    /\ validated' = ValidationStatus(vdata, vrules)
    /\ vstate' = "done"
    /\ UNCHANGED <<vdata, vrules, parseVars, loadVars, annVars, mainVars>>

\* the rule sets the engine's output is validated with: both ontologies
\* required, in either order, with the engine's threshold or a higher one
OutputRules ==
    {Rules(<<order>>, <<Float(t)>>) : order \in Orders(Names), t \in {"0.8", "0.9"}}

NextAnnotate ==
    \/ Submit
    \/ \E b \in 1..Len(batches) : WorkerStart(b)
    \/ \E b \in 1..Len(batches) : WorkerReturns(b)
    \/ \E b \in 1..Len(batches) : WorkerRaises(b)
    \/ GatherResult
    \/ GatherException
    \/ ConcatRaises
    \/ Return
    \/ \E rules \in OutputRules : CallValidate(rules)
    \/ ValidateAnnotations

SpecAnnotate == InitAnnotate /\ [][NextAnnotate]_vars

(***************************************************************************)
(* Properties of the annotation engine.                                    *)
(***************************************************************************)
\* annotate_sequence has returned or raised
Finished == run \in {"returned", "raised"}

Failed == {b \in 1..Len(batches) : status[b] = "failed"}

\* the table annotated as one batch
WholeTable ==
    AnnotateBatch(strategy, config[1].min_confidence, ontologies, records,
                  required)

RECURSIVE SurvivorsFrom(_)
\* the annotated frames of the batches from b on that do not raise,
\* concatenated in submission order
SurvivorsFrom(b) ==
    IF b > Len(batches) THEN <<>>
    ELSE IF BatchOutcome(b).exc = "none"
    THEN BatchOutcome(b).frame \o SurvivorsFrom(b + 1)
    ELSE SurvivorsFrom(b + 1)

\* C1: when no batch fails, annotate_sequence returns the records in input
\* order, and the frame is the one a single batch over the whole table
\* gives, whatever the batch size, the worker count and the order in which
\* the batches complete.
C1_OrderPreserved ==
    (Finished /\ Failed = {}) =>
        /\ run = "returned"
        /\ [i \in 1..Len(output) |-> output[i].rid]
              = [i \in 1..Len(records) |-> records[i].rid]
        /\ output = WholeTable.frame

\* C2: when some batches raise, annotate_sequence returns the rows of the
\* batches that did not raise, in submission order and in their order
\* within the batch, and has logged each failed batch.
C2_FailedBatchesDropped ==
    (Finished /\ Failed # {}) =>
        /\ run = "returned"
        /\ output = SurvivorsFrom(1)
        /\ \A b \in Failed :
              [kind |-> "batch_failed", name |-> "", batch |-> b] \in errors

\* C10: in the frame a batch returns, a requested name that is not loaded
\* has no annotation and confidence columns and is logged as not loaded,
\* and every requested name that is loaded has both columns on every row
\* of the batch.
C10_MissingOntologySkipped ==
    \A b \in 1..Len(batches) :
        status[b] = "done" =>
            /\ [i \in 1..Len(results[b]) |-> results[b][i].rid]
                  = [i \in 1..Len(batches[b]) |-> batches[b][i].rid]
            /\ \A n \in Range(required) :
                  IF ontologies[n] = <<>>
                  THEN /\ \A i \in 1..Len(results[b]) : results[b][i].cols[n] = <<>>
                       /\ [kind |-> "missing_ontology", name |-> n, batch |-> b]
                             \in errors
                  ELSE \A i \in 1..Len(results[b]) : results[b][i].cols[n] # <<>>

\* a batch of at least one row has returned where the first requested name
\* is not loaded and the second one is
C10_Witness ==
    /\ Len(required) = 2
    /\ ontologies[required[1]] = <<>>
    /\ ontologies[required[2]] # <<>>
    /\ \E b \in 1..Len(batches) :
          /\ status[b] = "done"
          /\ results[b] # <<>>
          /\ \A i \in 1..Len(results[b]) :
                /\ results[b][i].cols[required[1]] = <<>>
                /\ results[b][i].cols[required[2]] # <<>>

\* the cells of the frames the batches returned: batch b, row i and a
\* requested name n that is loaded
DoneCells == {c \in [b : 1..Len(batches), i : 1..MaxRecords, n : Names] :
                /\ status[c.b] = "done"
                /\ c.i <= Len(batches[c.b])
                /\ c.n \in Range(required)
                /\ ontologies[c.n] # <<>>}

CellOf(c) == results[c.b][c.i].cols[c.n]

\* the score of a graph entry for the row of a cell
ScoreOf(c, entry) == Score(strategy, batches[c.b][c.i].sequence[1], entry.v).score

\* the entries of the cell's graph that score at least min_confidence for
\* the cell's row, in the graph's order
Retained(c) ==
    LET Clears(entry) == ~FLess(ScoreOf(c, entry), config[1].min_confidence)
    IN  SelectSeq(ontologies[c.n][1], Clears)

\* C11: the matched term ids attached to a record for a loaded ontology
\* are the ids of the graph's terms that score at least min_confidence, in
\* the graph's order; a term scoring exactly min_confidence is among them
\* and a term scoring less is not.
C11_ExactlyThresholdTerms ==
    \A c \in DoneCells :
        /\ CellOf(c) # <<>>
        /\ CellOf(c)[1].annotation = DictKeys(Retained(c))

\* a batch has returned with a row whose matched terms hold a term scoring
\* exactly min_confidence (0.8) and leave out a term of the graph scoring
\* one tenth less (0.7)
C11_Witness ==
    \E c \in DoneCells :
        LET graph == ontologies[c.n][1]
            ids == Range(CellOf(c)[1].annotation)
        IN  /\ \E j \in 1..Len(graph) :
                  /\ ScoreOf(c, graph[j]) = config[1].min_confidence
                  /\ graph[j].k \in ids
            /\ \E j \in 1..Len(graph) :
                  /\ ScoreOf(c, graph[j]) = Float("0.7")
                  /\ graph[j].k \notin ids

\* C12: the confidence attached to a record for a loaded ontology is the
\* mean of the retained scores (their float sum in graph order divided by
\* their count), and the cell is the empty list with 0.0 exactly when no
\* term of the graph clears the threshold.
C12_MeanOrSentinel ==
    \A c \in DoneCells :
        LET kept == Retained(c)
            scores == [j \in 1..Len(kept) |-> ScoreOf(c, kept[j])]
            cell == CellOf(c)[1]
        IN  /\ (kept = <<>>) <=> (cell.annotation = <<>> /\ cell.confidence = Zero)
            /\ kept # <<>> => cell.confidence = FDiv(SumSeq(scores), Len(scores))

\* a batch has returned with a row that matched two terms, of scores 0.9
\* and 0.8, and carries their mean
C12_Witness ==
    \E c \in DoneCells :
        /\ Len(CellOf(c)[1].annotation) = 2
        /\ CellOf(c)[1].confidence = FDiv(FAdd(Float("0.9"), Float("0.8")), 2)

\* a term of the ontology's graph scores at least 0.8 for the row
HasStrongTerm(row, n) ==
    \E j \in 1..Len(ontologies[n][1]) :
        ~FLess(Score(strategy, row.sequence[1], ontologies[n][1][j].v).score,
               Float("0.8"))

\* C14: end to end, with main's rules (both ontologies required, threshold
\* 0.8): when both ontologies were requested and are loaded and every
\* record has a term scoring at least 0.8 in each, every record is PASS;
\* when a required ontology is not loaded, every record is
\* MISSING_REQUIRED_ANNOTATION.
C14_EndToEndVerdicts ==
    (vstate = "done" /\ vrules = MainRules) =>
        /\ ( /\ Range(required) = Names
             /\ \A n \in Names : ontologies[n] # <<>>
             /\ \A i \in 1..Len(vdata), n \in Names : HasStrongTerm(vdata[i], n) )
              => \A i \in 1..Len(vdata) : validated[i] = "PASS"
        /\ (\E n \in Names : ontologies[n] = <<>>)
              => \A i \in 1..Len(vdata) :
                    validated[i] = "MISSING_REQUIRED_ANNOTATION"

\* C16: annotate_sequence always returns a dataset: once every batch has
\* finished or failed it returns the rows of the batches that finished,
\* which is the empty dataset, and no error, when the input has no record
\* or every batch failed.
C16_AlwaysReturnsDataset ==
    Finished =>
        /\ run = "returned"
        /\ (records = <<>> \/ \A b \in 1..Len(batches) : status[b] = "failed")
              => output = <<>>

\* C17: the batches are contiguous slices of the input that cover every
\* record exactly once in input order; every batch is non-empty and holds
\* at most batch_size records, and only the last may hold fewer.
C17_BatchesPartitionInput ==
    run # "idle" =>
        LET B == config[1].batch_size
        IN  /\ \A b \in 1..Len(batches) :
                  /\ Len(batches[b]) >= 1
                  /\ Len(batches[b]) <= B
                  /\ b < Len(batches) => Len(batches[b]) = B
                  /\ \A i \in 1..Len(batches[b]) :
                        /\ (b - 1) * B + i <= Len(records)
                        /\ batches[b][i] = records[(b - 1) * B + i]
            /\ \A k \in 1..Len(records) :
                  /\ ((k - 1) \div B) + 1 <= Len(batches)
                  /\ ((k - 1) % B) + 1 <= Len(batches[((k - 1) \div B) + 1])

\* the table was split into at least two batches, the last one shorter
\* than batch_size
C17_Witness ==
    /\ run # "idle"
    /\ Len(batches) >= 2
    /\ Len(batches[Len(batches)]) < config[1].batch_size

\* C19: no step taken while the batches of a run are with the pool's
\* workers changes the loaded ontology graphs or the configuration.
C19_WorkersLeaveGraphs ==
    [][run = "pool" => (ontologies' = ontologies /\ config' = config)]_vars

\* a worker has returned its batch, annotated with a loaded graph, while
\* another worker is running
C19_Witness ==
    \E c \in DoneCells : \E b \in 1..Len(batches) : status[b] = "running"

\* C20: every annotation with a non-empty list of matched terms has a
\* confidence of at least the engine's min_confidence, and validating the
\* engine's output with a rule threshold that is at most the engine's
\* min_confidence gives no LOW_CONFIDENCE.
C20_ConfidenceClearsThreshold ==
    /\ \A c \in DoneCells :
          CellOf(c)[1].annotation # <<>>
             => ~FLess(CellOf(c)[1].confidence, config[1].min_confidence)
    /\ (vstate = "done" /\ ~FLess(config[1].min_confidence, ThresholdOf(vrules)))
          => \A i \in 1..Len(validated) : validated[i] # "LOW_CONFIDENCE"

(***************************************************************************)
(* SpecValidate: validate_annotations applied to every bounded frame and   *)
(* rule set.  A column is in the frame for every row or for none: per      *)
(* ontology the frame has no columns ("none"), the annotation column alone *)
(* ("annotation") or both columns ("both").                                *)
(***************************************************************************)
MaxRows == 2

\* the cells of a column pair of the given shape
Cells(shape) ==
    CASE shape = "none" -> {<<>>}
      [] shape = "annotation" ->
            {<<[annotation |-> a]>> : a \in {<<>>, <<<<"A">>>>}}
      [] shape = "both" ->
            {<<[annotation |-> <<>>, confidence |-> Zero]>>}
            \cup {<<[annotation |-> <<<<"A">>>>, confidence |-> Float(t)]>> :
                    t \in {"0.7", "0.8", "0.9"}}

\* the column pairs of a frame of n rows
Columns(n) ==
    UNION {[1..n -> Cells(shape)] : shape \in {"none", "annotation", "both"}}

\* the rule sets handed to the validator
RuleSets ==
    {Rules(names, threshold) :
        names \in {<<>>} \cup {<<order>> : order \in FileOrders},
        threshold \in {<<>>, <<Float("0.8")>>, <<Float("0.9")>>}}

InitValidate ==
    /\ ParseIdle /\ LoadIdle /\ AnnotateIdle /\ MainIdle
    /\ vstate = "called"
    /\ validated = <<>>
    /\ vrules \in RuleSets
    /\ \E n \in 1..MaxRows : \E column \in [Names -> Columns(n)] :
          vdata = [i \in 1..n |->
                     [Row(i, <<"s1">>) EXCEPT
                        !.cols = [name \in Names |-> column[name][i]]]]

NextValidate == ValidateAnnotations

SpecValidate == InitValidate /\ [][NextValidate]_vars

(***************************************************************************)
(* Properties of the validator.                                            *)
(***************************************************************************)
\* the row has no annotation for the name; it has one with a confidence
\* below the threshold
MissingOn(row, name) ==
    row.cols[name] = <<>> \/ row.cols[name][1].annotation = <<>>

LowOn(row, name, threshold) ==
    /\ ~MissingOn(row, name)
    /\ FLess(IF "confidence" \in DOMAIN row.cols[name][1]
             THEN row.cols[name][1].confidence ELSE Zero, threshold)

\* C13: each record gets one verdict, that of the first required ontology,
\* in list order, whose check fails: MISSING_REQUIRED_ANNOTATION when its
\* annotation is empty or absent, otherwise LOW_CONFIDENCE when its
\* confidence is below the rule threshold; PASS when no required ontology
\* fails.  A record missing the first ontology's annotation so gets
\* MISSING_REQUIRED_ANNOTATION whatever the confidence of a later one.
C13_FirstFailingCheck ==
    vstate = "done" =>
        /\ Len(validated) = Len(vdata)
        /\ \A i \in 1..Len(vdata) :
              LET names == RequiredOf(vrules)
                  t == ThresholdOf(vrules)
                  failing == {j \in 1..Len(names) :
                                \/ MissingOn(vdata[i], names[j])
                                \/ LowOn(vdata[i], names[j], t)}
              IN  IF failing = {} THEN validated[i] = "PASS"
                  ELSE LET first == CHOOSE j \in failing :
                                       \A k \in failing : j <= k
                       IN  validated[i] =
                              IF MissingOn(vdata[i], names[first])
                              THEN "MISSING_REQUIRED_ANNOTATION"
                              ELSE "LOW_CONFIDENCE"

\* a validated frame holds a record that lacks the annotation of the first
\* required ontology, has a confidence below the threshold for the second,
\* and is MISSING_REQUIRED_ANNOTATION
C13_Witness ==
    /\ vstate = "done"
    /\ Len(RequiredOf(vrules)) = 2
    /\ \E i \in 1..Len(vdata) :
          /\ MissingOn(vdata[i], RequiredOf(vrules)[1])
          /\ LowOn(vdata[i], RequiredOf(vrules)[2], ThresholdOf(vrules))
          /\ validated[i] = "MISSING_REQUIRED_ANNOTATION"

(***************************************************************************)
(* SpecMain: a run of main().  The annotator is constructed on main's two  *)
(* ontology files; inside __init__ the loader runs before redis_client is  *)
(* assigned, so LoadAttributeError is the one branch of its loop body that *)
(* a run takes, no graph is loaded, and no batch reaches the scoring that  *)
(* could raise.  The scoring strategy is the class's own stub.             *)
(***************************************************************************)
InitMain ==
    /\ ParseIdle /\ NewAnnotator /\ AnnotateIdle /\ ValidateIdle
    /\ pc = "main" /\ output_file = TRUE /\ written = FALSE

\* lines 379-383: RNASeqAnnotator(ontology_files, mongodb_uri, redis_url)
MainConstruct ==
    /\ pc = "main"
    /\ \E url \in BOOLEAN : Construct(MainOrder, url)

\* line 387: pd.read_csv(args.input) returns the input table
ReadCsv ==
    /\ pc = "main" /\ phase = "ready"
    /\ pc' = "read"
    /\ records' \in InputTables(MaxRecords)
    /\ required' = MainOrder
    /\ UNCHANGED <<strategy, run, batches, status, results, gathered,
                   annotated_batches, output, errors, output_file, written,
                   parseVars, loadVars, valVars>>

\* line 387: pd.read_csv raises, which nothing in main catches
ReadCsvRaises ==
    /\ pc = "main" /\ phase = "ready"
    /\ pc' = "exit1"
    /\ UNCHANGED <<output_file, written, parseVars, loadVars, annVars, valVars>>

\* the exception of annotate_sequence leaves main
MainRaises ==
    /\ pc = "read" /\ run = "raised"
    /\ pc' = "exit1"
    /\ UNCHANGED <<output_file, written, parseVars, loadVars, annVars, valVars>>

\* line 402 is passed: main returns and the process exits with status 0
MainReturns ==
    /\ pc = "read" /\ vstate = "done"
    /\ pc' = "exit0"
    /\ UNCHANGED <<output_file, written, parseVars, loadVars, annVars, valVars>>

NextMain ==
    \/ MainConstruct
    \/ LoadAttributeError
    \/ FinishConstruct
    \/ ReadCsv
    \/ ReadCsvRaises
    \/ Submit
    \/ \E b \in 1..Len(batches) : WorkerStart(b)
    \/ \E b \in 1..Len(batches) : WorkerReturns(b)
    \/ GatherResult
    \/ ConcatRaises
    \/ Return
    \/ CallValidate(MainRules)
    \/ ValidateAnnotations
    \/ MainRaises
    \/ MainReturns

SpecMain == InitMain /\ [][NextMain]_vars

(***************************************************************************)
(* Properties of main().                                                   *)
(***************************************************************************)
\* C15: when the setup of a run has loaded no ontology at all, the run is
\* fatal: it does not go on to annotate, it writes no output table and it
\* does not exit with status 0.
C15_SetupFailureFatal ==
    (pc # "lib" /\ phase = "ready" /\ \A n \in Names : ontologies[n] = <<>>) =>
        /\ run = "idle"
        /\ ~written
        /\ pc # "exit0"

=============================================================================
